---------------------------- MODULE Spec2Model ----------------------------
(***************************************************************************)
(* Model of package httpu (src/httpu/httpu.go): HTTPUClient, one UDP       *)
(* socket guarded by connLock, with its two methods Do and Close.          *)
(*                                                                         *)
(* Time is counted in units of 5ms (the send pause of Do), and the model   *)
(* keeps the one quantity the code's behaviour depends on: the time left   *)
(* until the socket's deadline.  Byte strings are sequences of tokens:     *)
(* each token stands for the bytes one format verb or literal of the       *)
(* source writes.                                                          *)
(***************************************************************************)
EXTENDS Integers, Sequences, FiniteSets, TLC

(* ------------------------------ bounds ------------------------------- *)

NumProcs == 2          \* goroutines that call Do and Close on the one client
MaxCalls == 2          \* calls (Do or Close) made in one behaviour
MaxIfs == 2            \* interfaces net.Interfaces() reports in one call
MaxSends == 2          \* largest numSends a caller passes
MaxTimeout == 4        \* largest timeout a caller passes, in 5ms units
MaxDatagrams == 2      \* datagrams that reach the socket in one behaviour

(* ------------------------- program constants ------------------------- *)

SendPause == 1         \* time.Sleep(5 * time.Millisecond)
ReadPause == 2         \* time.Sleep(10 * time.Millisecond)
BufSize == 2048        \* make([]byte, 2048)
FlagMulticast == 16    \* net.FlagMulticast

Procs == 1..NumProcs

Min(a, b) == IF a < b THEN a ELSE b

(* ------------------------------ errors ------------------------------- *)

\* An error value: the operation that failed, whether it is a net.Error and
\* what its Timeout() and Temporary() methods answer.  nil is no error.
nil == [op |-> "nil", netError |-> FALSE, timeout |-> FALSE, temporary |-> FALSE]
Failure(op) == [op |-> op, netError |-> TRUE, timeout |-> FALSE, temporary |-> FALSE]
ErrTimeout(op) == [op |-> op, netError |-> TRUE, timeout |-> TRUE, temporary |-> TRUE]
ErrTemporary(op) == [op |-> op, netError |-> TRUE, timeout |-> FALSE, temporary |-> TRUE]
ErrPlain(op) == [op |-> op, netError |-> FALSE, timeout |-> FALSE, temporary |-> FALSE]

(* ------------------------------ requests ----------------------------- *)

\* Header names in the order sort.Strings puts them (Header.Write sorts keys).
HeaderOrder == <<"HOST", "MAN", "ST">>

\* url.URL.RequestURI(): the opaque part, else the path, "/" when both are empty,
\* followed by "?" and the query when there is one.
RequestURI(u) ==
    LET base == IF u.Opaque # "" THEN u.Opaque
                ELSE IF u.Path # "" THEN u.Path ELSE "/"
    IN IF u.RawQuery # "" THEN <<base, "?", u.RawQuery>> ELSE <<base>>

RECURSIVE HeaderLines(_, _)
\* The lines Header.Write writes for the values vs of key k, in their order.
HeaderLines(k, vs) ==
    IF vs = <<>> THEN <<>>
    ELSE <<k, ": ", Head(vs), "\r\n">> \o HeaderLines(k, Tail(vs))

RECURSIVE HeaderWrite(_, _)
\* http.Header.Write: for each key from position n of the sorted order on, one
\* line per value.
HeaderWrite(h, n) ==
    IF n > Len(HeaderOrder) THEN <<>>
    ELSE (IF HeaderOrder[n] \in DOMAIN h THEN HeaderLines(HeaderOrder[n], h[HeaderOrder[n]])
          ELSE <<>>) \o HeaderWrite(h, n + 1)

\* The method used as given, without the default.
MethodAsGiven(r) == r.Method

\* req.Method, GET when it is empty (lines 55-58).
MethodOf(r) == IF r.Method = "" THEN "GET" ELSE r.Method

\* What Do writes into requestBuf (lines 54-67): the request line, the headers,
\* an empty line.  req.Body is never read.
EncodeRequest(r) ==
    <<MethodOf(r), " ">> \o RequestURI(r.URL) \o <<" HTTP/1.1\r\n">>
        \o HeaderWrite(r.Header, 1)
        \o <<"\r\n">>

KnownHosts == {"239.255.255.250", "192.168.1.1"}

\* net.ResolveUDPAddr("udp", host): host must be "name:port" with a name that
\* resolves; the answer is the address or an error.
ResolveUDPAddr(h) ==
    IF Len(h) = 3 /\ h[2] = ":" /\ h[1] \in KnownHosts /\ h[3] # ""
    THEN [addr |-> <<h[1], h[3]>>, err |-> nil]
    ELSE [addr |-> <<>>, err |-> ErrPlain("ResolveUDPAddr")]

SSDPHost == <<"239.255.255.250", ":", "1900">>
StarURL == [Opaque |-> "*", Path |-> "", RawQuery |-> ""]

SearchRequest ==
    [Method |-> "M-SEARCH", URL |-> StarURL, Host |-> SSDPHost,
     Header |-> [k \in {"MAN", "ST"} |->
                   IF k = "MAN" THEN <<"\"ssdp:discover\"">> ELSE <<"ssdp:all">>],
     Body |-> <<>>]

\* The requests the encoding is checked on in EncSpec: every combination of
\* these methods, URLs, headers and bodies, sent to the SSDP group.
EncMethods == {"", "M-SEARCH", "NOTIFY"}
EncURLs ==
    {StarURL,
     [Opaque |-> "", Path |-> "", RawQuery |-> ""],
     [Opaque |-> "", Path |-> "/desc.xml", RawQuery |-> ""],
     [Opaque |-> "", Path |-> "/ctl", RawQuery |-> "q=1"]}
EncHeaders ==
    {<<>>,
     SearchRequest.Header,
     [k \in {"MAN"} |-> <<"\"ssdp:discover\"", "second">>],
     [k \in {"HOST", "ST"} |-> IF k = "HOST" THEN <<"239.255.255.250:1900">> ELSE <<>>],
     [k \in {"HOST", "MAN", "ST"} |->
        IF k = "ST" THEN <<"upnp:rootdevice", "ssdp:all">> ELSE <<"x">>]}
EncBodies == {<<>>, <<"body">>}
EncRequests ==
    {[Method |-> m, URL |-> u, Host |-> SSDPHost, Header |-> h, Body |-> b] :
        m \in EncMethods, u \in EncURLs, h \in EncHeaders, b \in EncBodies}

\* The requests callers pass in Spec: a discovery probe, and a request whose
\* host lacks the port.
Requests ==
    {SearchRequest,
     [SearchRequest EXCEPT !.Method = "", !.Host = <<"239.255.255.250">>]}

(* ----------------------------- interfaces ---------------------------- *)

\* Flags of an interface that is up (net.FlagUp is bit 0), without and with
\* the multicast flag.
IfFlagValues == {1, 1 + FlagMulticast}

\* ifc.Flags&net.FlagMulticast == 0 is false (line 87).
HasMulticast(flags) == (flags \div FlagMulticast) % 2 = 1

\* The lists net.Interfaces() can return: interface n of a list has Index n.
InterfaceLists ==
    UNION {[1..n -> IfFlagValues] : n \in 0..MaxIfs}

\* The position of the first interface from position `from` on that the inner
\* loop does not skip (lines 86-90), 0 when the round has no more.
RECURSIVE NextMulticast(_, _)
NextMulticast(ifl, from) ==
    IF from > Len(ifl) THEN 0
    ELSE IF HasMulticast(ifl[from]) THEN from
    ELSE NextMulticast(ifl, from + 1)

(* ----------------------------- responses ----------------------------- *)

\* Datagram payloads that reach the socket: a response and bytes that are no
\* HTTP response.
Payloads ==
    {[proto |-> "HTTP/1.1", code |-> 200, hdrLen |-> 120, len |-> 120],
     [proto |-> "junk", code |-> 0, hdrLen |-> 40, len |-> 40]}

\* http.ReadResponse on the first n bytes of payload d: the status line must
\* carry an HTTP version and the header block must end within the bytes given.
ReadResponse(d, n) ==
    IF d.proto = "HTTP/1.1" /\ d.code >= 100 /\ d.hdrLen <= n
    THEN [resp |-> [Proto |-> d.proto, StatusCode |-> d.code, from |-> d.id], err |-> nil]
    ELSE [resp |-> <<>>, err |-> ErrPlain("ReadResponse")]

(* ------------------------------- state ------------------------------- *)

VARIABLES
    pc,             \* pc[p]: where goroutine p stands in its call
    frame,          \* frame[p]: the arguments, locals and return values of p's call
    log,            \* log[p]: what p's call has done to the socket so far (history)
    connLock,       \* the goroutine that holds httpu.connLock, 0 when it is free
    closed,         \* httpu.conn has been closed
    deadline,       \* the time left until the socket's deadline (time.Until of it):
                    \* 0 once it is reached, NoDeadline while none was ever set
    deadlineOf,     \* the call (its number) that set the socket's deadline (history)
    mcastIf,        \* the socket's outgoing multicast interface (an Index), 0 at first
    inbox,          \* datagrams received by the socket and not read yet
    arrived,        \* datagrams that reached the socket so far
    ncalls,         \* calls made so far
    closeReturned,  \* some call of Close has returned (history)
    delivered       \* delivered[d]: the call whose result holds the response parsed
                    \* from datagram d, 0 while none does (history)

vars == <<pc, frame, log, connLock, closed, deadline, deadlineOf, mcastIf, inbox,
          arrived, ncalls, closeReturned, delivered>>

Timeouts == {0, MaxTimeout}
SendCounts == 0..MaxSends

\* The frame of a call that has just been made.
NewFrame(op, r, t, k) ==
    [op |-> op, id |-> ncalls + 1, req |-> r, timeout |-> t, numSends |-> k,
     requestBuf |-> <<>>, destAddr |-> <<>>, ifs |-> <<>>, i |-> 0, j |-> 0,
     responses |-> <<>>, err |-> nil,
     retResponses |-> <<>>, retErr |-> nil, afterClose |-> closeReturned]

NoFrame == [op |-> "none"]

\* The deadline of a socket whose deadline was never set: I/O does not time out.
NoDeadline == -1

Init ==
    /\ pc = [p \in Procs |-> "idle"]
    /\ frame = [p \in Procs |-> NoFrame]
    /\ log = [p \in Procs |-> <<>>]
    /\ connLock = 0
    /\ closed = FALSE
    /\ deadline = NoDeadline
    /\ deadlineOf = 0
    /\ mcastIf = 0
    /\ inbox = <<>>
    /\ arrived = 0
    /\ ncalls = 0
    /\ closeReturned = FALSE
    /\ delivered = [d \in 1..MaxDatagrams |-> 0]

\* p executes a return statement of Do or Close with these values; the
\* deferred Unlock is still to run.
ReturnWith(p, resps, e) ==
    /\ frame' = [frame EXCEPT ![p].retResponses = resps, ![p].retErr = e]
    /\ pc' = [pc EXCEPT ![p] = "ret"]

Logged(p, e) == log' = [log EXCEPT ![p] = Append(@, e)]

(* ------------------------------ callers ------------------------------ *)

\* A goroutine calls httpu.Do.  (Do reads its arguments only once it holds
\* the lock: they are drawn there.)
CallDo(p) ==
    /\ pc[p] = "idle"
    /\ ncalls < MaxCalls
    /\ frame' = [frame EXCEPT ![p] = NewFrame("Do", SearchRequest, 0, 0)]
    /\ pc' = [pc EXCEPT ![p] = "lock"]
    /\ log' = [log EXCEPT ![p] = <<>>]
    /\ ncalls' = ncalls + 1
    /\ UNCHANGED <<connLock, closed, deadline, deadlineOf, mcastIf, inbox, arrived,
                   closeReturned, delivered>>

\* A goroutine calls httpu.Close().
CallClose(p) ==
    /\ pc[p] = "idle"
    /\ ncalls < MaxCalls
    /\ frame' = [frame EXCEPT ![p] = NewFrame("Close", SearchRequest, 0, 0)]
    /\ pc' = [pc EXCEPT ![p] = "lock"]
    /\ log' = [log EXCEPT ![p] = <<>>]
    /\ ncalls' = ncalls + 1
    /\ UNCHANGED <<connLock, closed, deadline, deadlineOf, mcastIf, inbox, arrived,
                   closeReturned, delivered>>

(* ------------------------------- mutex ------------------------------- *)

\* A Lock that does not wait for the mutex.
CanLockAnyway == TRUE

\* connLock.Lock() returns only when no goroutine holds the mutex.
CanLock == connLock = 0

(* ------------------------------- Close ------------------------------- *)

\* A Close that goes on to close the socket without waiting for the mutex.
CloseLockSkipped(p) ==
    /\ pc[p] = "lock"
    /\ frame[p].op = "Close"
    /\ connLock' = p
    /\ pc' = [pc EXCEPT ![p] = "close"]
    /\ UNCHANGED <<frame, log, closed, deadline, deadlineOf, mcastIf, inbox, arrived, ncalls,
                   closeReturned, delivered>>

\* Close, line 35: httpu.connLock.Lock().
CloseLock(p) ==
    /\ pc[p] = "lock"
    /\ frame[p].op = "Close"
    /\ CanLock
    /\ connLock' = p
    /\ pc' = [pc EXCEPT ![p] = "close"]
    /\ UNCHANGED <<frame, log, closed, deadline, deadlineOf, mcastIf, inbox, arrived, ncalls,
                   closeReturned, delivered>>

\* A Close that returns without closing the socket.
CloseConnLeftOpen(p) ==
    /\ pc[p] = "close"
    /\ ReturnWith(p, <<>>, nil)
    /\ UNCHANGED <<log, closed, connLock, deadline, deadlineOf, mcastIf, inbox, arrived,
                   ncalls, closeReturned, delivered>>

\* Close, line 37: return httpu.conn.Close().  Closing a closed socket is an error.
CloseConn(p) ==
    /\ pc[p] = "close"
    /\ closed' = TRUE
    /\ Logged(p, [ev |-> "Close"])
    /\ ReturnWith(p, <<>>, IF closed THEN Failure("Close") ELSE nil)
    /\ UNCHANGED <<connLock, deadline, deadlineOf, mcastIf, inbox, arrived, ncalls,
                   closeReturned, delivered>>

(* --------------------------------- Do -------------------------------- *)

\* The result of ResolveUDPAddr used without looking at its error.
ResolveErrorIgnored(res) == FALSE

\* Do, lines 70-72: if err != nil { return nil, err } after ResolveUDPAddr.
ResolveFailed(res) == res.err # nil

\* Do, lines 47-72, called with a request of R, a timeout of T and a numSends
\* of K: take the lock, encode the request, resolve req.Host.  (Writes into a
\* bytes.Buffer do not fail.)
DoLockWith(p, R, T, K) ==
    /\ pc[p] = "lock"
    /\ frame[p].op = "Do"
    /\ CanLock
    /\ connLock' = p
    /\ \E r \in R, t \in T, k \in K :
         LET buf == EncodeRequest(r)
             res == ResolveUDPAddr(r.Host)
             f == [frame[p] EXCEPT !.req = r, !.timeout = t, !.numSends = k,
                                   !.requestBuf = buf, !.err = res.err]
         IN IF ResolveFailed(res)
            THEN /\ frame' = [frame EXCEPT ![p] =
                                [f EXCEPT !.retResponses = <<>>, !.retErr = res.err]]
                 /\ pc' = [pc EXCEPT ![p] = "ret"]
            ELSE /\ frame' = [frame EXCEPT ![p] = [f EXCEPT !.destAddr = res.addr]]
                 /\ pc' = [pc EXCEPT ![p] = "deadline"]
    /\ UNCHANGED <<log, closed, deadline, deadlineOf, mcastIf, inbox, arrived, ncalls,
                   closeReturned, delivered>>

DoLock(p) == DoLockWith(p, Requests, Timeouts, SendCounts)

\* A deadline computed from the timeout plus the send pause.
DeadlineAfterPause(t) == IF t > 0 THEN t + SendPause ELSE SendPause

\* The zero time.Time: no deadline.
DeadlineUnset(t) == NoDeadline

\* time.Now().Add(timeout), as the time left until it: none when the timeout
\* is not positive.
DeadlineFor(t) == IF t > 0 THEN t ELSE 0

\* The time left until the deadline after d more units of time.
Elapse(d) ==
    IF deadline = NoDeadline THEN NoDeadline
    ELSE IF deadline > d THEN deadline - d ELSE 0

\* Do, lines 73-75: conn.SetDeadline(time.Now().Add(timeout)); it fails on a
\* closed socket.
DoSetDeadline(p) ==
    /\ pc[p] = "deadline"
    /\ IF closed
       THEN /\ Logged(p, [ev |-> "SetDeadline", ok |-> FALSE, d |-> deadline])
            /\ frame' = [frame EXCEPT ![p].err = Failure("SetDeadline"),
                                      ![p].retResponses = <<>>,
                                      ![p].retErr = Failure("SetDeadline")]
            /\ pc' = [pc EXCEPT ![p] = "ret"]
            /\ UNCHANGED <<deadline, deadlineOf>>
       ELSE /\ deadline' = DeadlineFor(frame[p].timeout)
            /\ deadlineOf' = frame[p].id
            /\ Logged(p, [ev |-> "SetDeadline", ok |-> TRUE,
                          d |-> DeadlineFor(frame[p].timeout)])
            /\ frame' = [frame EXCEPT ![p].err = nil]
            /\ pc' = [pc EXCEPT ![p] = "interfaces"]
    /\ UNCHANGED <<connLock, closed, mcastIf, inbox, arrived, ncalls, closeReturned, delivered>>

\* The outer loop written with i <= numSends: one round too many.
SendPCExtraRound(i, j, k) ==
    IF i > k THEN "read" ELSE IF j = 0 THEN "sleep" ELSE "bind"

\* An inner loop that writes without binding the outgoing interface first.
SendPCUnbound(i, j, k) ==
    IF i >= k THEN "read" ELSE IF j = 0 THEN "sleep" ELSE "write"

\* Where the send loops stand with round i and interface position j (0: the
\* round has no interface left): the outer loop ends when i reaches numSends.
SendPC(i, j, k) ==
    IF i >= k THEN "read" ELSE IF j = 0 THEN "sleep" ELSE "bind"

\* Do, lines 77-80: net.Interfaces(), which the system may fail.
DoInterfaces(p) ==
    /\ pc[p] = "interfaces"
    /\ \/ \E ifl \in InterfaceLists :
            LET j0 == NextMulticast(ifl, 1)
            IN /\ frame' = [frame EXCEPT ![p].ifs = ifl, ![p].err = nil,
                                         ![p].i = 0, ![p].j = j0]
               /\ pc' = [pc EXCEPT ![p] = SendPC(0, j0, frame[p].numSends)]
       \/ /\ frame' = [frame EXCEPT ![p].err = ErrPlain("Interfaces"),
                                    ![p].retResponses = <<>>,
                                    ![p].retErr = ErrPlain("Interfaces")]
          /\ pc' = [pc EXCEPT ![p] = "ret"]
    /\ UNCHANGED <<log, connLock, closed, deadline, deadlineOf, mcastIf, inbox, arrived, ncalls,
                   closeReturned, delivered>>

\* A bind whose error is not looked at: the write follows in any case.
DoBindErrorIgnored(p) ==
    /\ pc[p] = "bind"
    /\ \/ /\ mcastIf' = frame[p].j
          /\ Logged(p, [ev |-> "SetMulticastInterface", ok |-> TRUE, ifc |-> frame[p].j,
                        round |-> frame[p].i])
       \/ /\ Logged(p, [ev |-> "SetMulticastInterface", ok |-> FALSE, ifc |-> frame[p].j,
                        round |-> frame[p].i])
          /\ UNCHANGED mcastIf
    /\ pc' = [pc EXCEPT ![p] = "write"]
    /\ UNCHANGED <<frame, connLock, closed, deadline, deadlineOf, inbox, arrived, ncalls,
                   closeReturned, delivered>>

\* Do, lines 93-95: conn.SetMulticastInterface(&ifc), which the system may fail.
DoBind(p) ==
    /\ pc[p] = "bind"
    /\ \/ /\ mcastIf' = frame[p].j
          /\ Logged(p, [ev |-> "SetMulticastInterface", ok |-> TRUE, ifc |-> frame[p].j,
                        round |-> frame[p].i])
          /\ pc' = [pc EXCEPT ![p] = "write"]
          /\ UNCHANGED frame
       \/ /\ Logged(p, [ev |-> "SetMulticastInterface", ok |-> FALSE, ifc |-> frame[p].j,
                        round |-> frame[p].i])
          /\ ReturnWith(p, <<>>, Failure("SetMulticastInterface"))
          /\ UNCHANGED mcastIf
    /\ UNCHANGED <<connLock, closed, deadline, deadlineOf, inbox, arrived, ncalls,
                   closeReturned, delivered>>

\* An I/O operation on the socket started at this moment fails with a
\* timeout: the deadline conn.SetDeadline set (for reads and for writes) has
\* been reached.
Expired == deadline = 0

\* The event a WriteTo leaves in the log: the datagram goes out of the interface
\* the socket is bound to, n bytes of it.
WriteEvent(p, n, e) ==
    [ev |-> "WriteTo", ifc |-> mcastIf, round |-> frame[p].i, buf |-> frame[p].requestBuf,
     dst |-> frame[p].destAddr, n |-> n, err |-> e]

\* A write of fewer bytes than the buffer holds taken for a full one.
ShortWriteTolerated(n, len) == FALSE

\* Do, line 99: n < len(requestBuf.Bytes()).
ShortWrite(n, len) == n < len

\* Do, lines 97-102: conn.WriteTo(requestBuf.Bytes(), nil, destAddr).  It
\* reports an error, or the number of bytes written; fewer than the buffer
\* holds is an error of Do's own.
DoWrite(p) ==
    /\ pc[p] = "write"
    /\ LET len == Len(frame[p].requestBuf)
       IN \/ /\ Expired
             /\ Logged(p, WriteEvent(p, 0, ErrTimeout("WriteTo")))
             /\ ReturnWith(p, <<>>, ErrTimeout("WriteTo"))
          \/ /\ ~Expired
             /\ Logged(p, WriteEvent(p, 0, Failure("WriteTo")))
             /\ ReturnWith(p, <<>>, Failure("WriteTo"))
          \/ /\ ~Expired
             /\ \E n \in 0..len :
                  /\ Logged(p, WriteEvent(p, n, nil))
                  /\ IF ShortWrite(n, len)
                     THEN ReturnWith(p, <<>>, ErrPlain("short write"))
                     ELSE LET j1 == NextMulticast(frame[p].ifs, frame[p].j + 1)
                          IN /\ frame' = [frame EXCEPT ![p].j = j1]
                             /\ pc' = [pc EXCEPT ![p] =
                                         SendPC(frame[p].i, j1, frame[p].numSends)]
    /\ UNCHANGED <<connLock, closed, deadline, deadlineOf, mcastIf, inbox, arrived, ncalls,
                   closeReturned, delivered>>

\* Do, lines 104-105 and 83: time.Sleep(5ms) after a round, then i++.
DoSleep(p) ==
    /\ pc[p] = "sleep"
    /\ deadline' = Elapse(SendPause)
    /\ Logged(p, [ev |-> "Sleep", d |-> SendPause, round |-> frame[p].i])
    /\ LET i1 == frame[p].i + 1
           j1 == NextMulticast(frame[p].ifs, 1)
       IN /\ frame' = [frame EXCEPT ![p].i = i1, ![p].j = j1]
          /\ pc' = [pc EXCEPT ![p] = SendPC(i1, j1, frame[p].numSends)]
    /\ UNCHANGED <<connLock, closed, deadlineOf, mcastIf, inbox, arrived, ncalls,
                   closeReturned, delivered>>

\* A loop without the retry of lines 118-122: every error but a timeout is
\* returned.
ReadErrActionNoRetry(e) ==
    IF e.netError /\ e.timeout THEN "break" ELSE "return"

\* What the collection loop does with a read error (lines 113-124): leave the
\* loop, pause and read again, or return the error.
ReadErrAction(e) ==
    IF e.netError /\ e.timeout THEN "break"
    ELSE IF e.netError /\ e.temporary THEN "continue"
    ELSE "return"

\* A return that hands back the responses collected so far with the error.
ResponsesKeptOnError(resps) == resps

\* Do, line 124: return nil, err.  The responses collected so far are dropped.
ResponsesOnError(resps) == <<>>

\* Do, lines 113-125 and 136: conn.ReadFrom reported error e.
ReadFailed(p, e) ==
    /\ Logged(p, [ev |-> "ReadFrom", dl |-> deadlineOf, err |-> e])
    /\ CASE ReadErrAction(e) = "break" ->
              /\ ReturnWith(p, frame[p].responses, frame[p].err)
              /\ UNCHANGED deadline
         [] ReadErrAction(e) = "continue" ->
              /\ deadline' = Elapse(ReadPause)
              /\ UNCHANGED <<frame, pc>>
         [] OTHER ->
              /\ ReturnWith(p, ResponsesOnError(frame[p].responses), e)
              /\ UNCHANGED deadline
    /\ UNCHANGED <<connLock, closed, deadlineOf, mcastIf, inbox, arrived, ncalls,
                   closeReturned, delivered>>

\* Do, line 112: conn.ReadFrom at or after the deadline reports a timeout.
DoReadTimeout(p) ==
    /\ pc[p] = "read"
    /\ Expired
    /\ ReadFailed(p, ErrTimeout("ReadFrom"))

\* The errors the system can make conn.ReadFrom report before the deadline:
\* a temporary error, another network error, an error that is no net.Error.
ReadErrors == {ErrTemporary("ReadFrom"), Failure("ReadFrom"), ErrPlain("ReadFrom")}

\* Do, line 112: conn.ReadFrom fails before the deadline.
DoReadFail(p) ==
    /\ pc[p] = "read"
    /\ ~Expired
    /\ \E e \in ReadErrors : ReadFailed(p, e)

\* A loop that leaves out the `continue` after a parse failure (line 131) and
\* appends whatever ReadResponse returned.
CollectedUnchecked(resps, d) ==
    Append(resps, ReadResponse(d, Min(d.len, BufSize)).resp)

\* What the loop appends for datagram d (lines 112, 128-134): the response
\* parsed from the bytes that fit the buffer, nothing when they do not parse.
Collected(resps, d) ==
    LET n == Min(d.len, BufSize)
        r == ReadResponse(d, n)
    IN IF r.err # nil THEN resps ELSE Append(resps, r.resp)

\* A read that leaves the datagram in the socket's queue (a peek).
DoReadDatagramPeek(p) ==
    /\ pc[p] = "read"
    /\ ~Expired
    /\ inbox # <<>>
    /\ Logged(p, [ev |-> "ReadFrom", dl |-> deadlineOf, d |-> Head(inbox), err |-> nil])
    /\ frame' = [frame EXCEPT ![p].responses = Collected(@, Head(inbox))]
    /\ UNCHANGED <<pc, connLock, closed, deadline, deadlineOf, mcastIf, inbox, arrived,
                   ncalls, closeReturned, delivered>>

\* Do, lines 112 and 127-134: conn.ReadFrom delivers the oldest datagram the
\* socket holds; it is parsed, and appended when it parses.
DoReadDatagram(p) ==
    /\ pc[p] = "read"
    /\ ~Expired
    /\ inbox # <<>>
    /\ inbox' = Tail(inbox)
    /\ Logged(p, [ev |-> "ReadFrom", dl |-> deadlineOf, d |-> Head(inbox), err |-> nil])
    /\ frame' = [frame EXCEPT ![p].responses = Collected(@, Head(inbox))]
    /\ UNCHANGED <<pc, connLock, closed, deadline, deadlineOf, mcastIf, arrived, ncalls,
                   closeReturned, delivered>>

\* The caller of the call with frame f receives f.retResponses: each response
\* in it came from one datagram, now part of that call's result.
DeliveredWith(f) ==
    [d \in 1..MaxDatagrams |->
        IF \E n \in 1..Len(f.retResponses) : f.retResponses[n].from = d
        THEN f.id ELSE delivered[d]]

\* A return that leaves the mutex locked (no deferred Unlock).
ReturnLockKept(p) ==
    /\ pc[p] = "ret"
    /\ closeReturned' = (closeReturned \/ frame[p].op = "Close")
    /\ pc' = [pc EXCEPT ![p] = "idle"]
    /\ frame' = [frame EXCEPT ![p] = NoFrame]
    /\ log' = [log EXCEPT ![p] = <<>>]
    /\ delivered' = DeliveredWith(frame[p])
    /\ UNCHANGED <<connLock, closed, deadline, deadlineOf, mcastIf, inbox, arrived, ncalls>>

\* The deferred connLock.Unlock() of Do (line 49) and of Close (line 36) runs
\* and the call returns to its caller.
Return(p) ==
    /\ pc[p] = "ret"
    /\ connLock' = 0
    /\ closeReturned' = (closeReturned \/ frame[p].op = "Close")
    /\ pc' = [pc EXCEPT ![p] = "idle"]
    /\ frame' = [frame EXCEPT ![p] = NoFrame]
    /\ log' = [log EXCEPT ![p] = <<>>]
    /\ delivered' = DeliveredWith(frame[p])
    /\ UNCHANGED <<closed, deadline, deadlineOf, mcastIf, inbox, arrived, ncalls>>

(* ---------------------------- environment ---------------------------- *)

\* Time passes: a pending deadline comes one unit nearer.
Tick ==
    /\ deadline > 0
    /\ deadline' = Elapse(1)
    /\ UNCHANGED <<pc, frame, log, connLock, closed, deadlineOf, mcastIf, inbox, arrived,
                   ncalls, closeReturned, delivered>>

\* A datagram reaches the socket (bound since NewHTTPUClient, line 25).
Arrive ==
    /\ ~closed
    /\ arrived < MaxDatagrams
    /\ \E d \in Payloads :
         inbox' = Append(inbox, [proto |-> d.proto, code |-> d.code, hdrLen |-> d.hdrLen,
                                 len |-> d.len, id |-> arrived + 1])
    /\ arrived' = arrived + 1
    /\ UNCHANGED <<pc, frame, log, connLock, closed, deadline, deadlineOf, mcastIf,
                   ncalls, closeReturned, delivered>>

Next ==
    \/ \E p \in Procs : CallDo(p)
    \/ \E p \in Procs : CallClose(p)
    \/ \E p \in Procs : CloseLock(p)
    \/ \E p \in Procs : CloseConn(p)
    \/ \E p \in Procs : DoLock(p)
    \/ \E p \in Procs : DoSetDeadline(p)
    \/ \E p \in Procs : DoInterfaces(p)
    \/ \E p \in Procs : DoBind(p)
    \/ \E p \in Procs : DoWrite(p)
    \/ \E p \in Procs : DoSleep(p)
    \/ \E p \in Procs : DoReadTimeout(p)
    \/ \E p \in Procs : DoReadFail(p)
    \/ \E p \in Procs : DoReadDatagram(p)
    \/ \E p \in Procs : Return(p)
    \/ Tick
    \/ Arrive

Spec == Init /\ [][Next]_vars

\* The steps of p's call that the runtime and the system complete once they
\* can be taken: a free mutex is acquired, a system call returns, a sleep
\* ends, a read at or after the deadline returns, a deferred Unlock runs.
\* Nothing obliges the network to deliver a datagram or an error.
Progress(p) ==
    \/ CloseLock(p) \/ CloseConn(p) \/ DoLock(p) \/ DoSetDeadline(p) \/ DoInterfaces(p)
    \/ DoBind(p) \/ DoWrite(p) \/ DoSleep(p) \/ DoReadTimeout(p) \/ DoReadDatagram(p)
    \/ Return(p)

\* Spec with time that advances and calls that are scheduled.
LiveSpec ==
    /\ Init /\ [][Next]_vars
    /\ WF_vars(Tick)
    /\ \A p \in Procs : WF_vars(Progress(p))

\* Do, lines 47-72, on the requests of EncRequests, with one round of sends.
EncDoLock(p) == DoLockWith(p, EncRequests, {MaxTimeout}, {1})

\* One goroutine calls Do on the requests of EncRequests, up to the writes.
EncNext ==
    \/ CallDo(1)
    \/ EncDoLock(1)
    \/ DoSetDeadline(1)
    \/ DoInterfaces(1)
    \/ DoBind(1)
    \/ DoWrite(1)
    \/ Return(1)

EncSpec == Init /\ [][EncNext]_vars

\* The values of numSends for which the loop of line 83 has no round.
NoSendCounts == (0 - MaxSends)..0

\* Do, lines 47-72, called with a numSends that is zero or negative.
NoSendDoLock(p) == DoLockWith(p, Requests, Timeouts, NoSendCounts)

\* Calls of Close and of Do with a numSends that is zero or negative: the
\* send loop has no round, so Do goes from net.Interfaces to the collection.
NoSendNext ==
    \/ \E p \in Procs : CallDo(p)
    \/ \E p \in Procs : CallClose(p)
    \/ \E p \in Procs : CloseLock(p)
    \/ \E p \in Procs : CloseConn(p)
    \/ \E p \in Procs : NoSendDoLock(p)
    \/ \E p \in Procs : DoSetDeadline(p)
    \/ \E p \in Procs : DoInterfaces(p)
    \/ \E p \in Procs : DoReadTimeout(p)
    \/ \E p \in Procs : DoReadFail(p)
    \/ \E p \in Procs : DoReadDatagram(p)
    \/ \E p \in Procs : Return(p)
    \/ Tick
    \/ Arrive

NoSendSpec == Init /\ [][NoSendNext]_vars

(* ------------------------------ claims ------------------------------- *)

\* p is inside Do: it holds (or should hold) the lock and has not returned.
InDo(p) == frame[p].op = "Do" /\ pc[p] \notin {"idle", "lock"}

\* Do has executed a return statement.
DoReturned(p) == frame[p].op = "Do" /\ pc[p] = "ret"

IsWrite(e) == e.ev = "WriteTo"
IsRead(e) == e.ev = "ReadFrom"
IsBind(e) == e.ev = "SetMulticastInterface"
IsSetDeadline(e) == e.ev = "SetDeadline"
Writes(p) == SelectSeq(log[p], IsWrite)
Reads(p) == SelectSeq(log[p], IsRead)

\* C1: at most one exchange is in flight per client.  Two goroutines are never
\* both inside Do, a goroutine inside Do holds the lock, and a goroutine that
\* waits for the lock has done nothing to the socket (no deadline set, no
\* send, no read).
C1_OneExchangeInFlight ==
    /\ \A p, q \in Procs : (p # q) => ~(InDo(p) /\ InDo(q))
    /\ \A p \in Procs : InDo(p) => connLock = p
    /\ \A p \in Procs : (pc[p] = "lock") => (log[p] = <<>>)

\* A second Do waits for the lock while the first is reading, after it has set
\* the deadline and sent.
C1_Witness ==
    \E p, q \in Procs :
        /\ p # q
        /\ pc[q] = "lock" /\ frame[q].op = "Do"
        /\ pc[p] = "read" /\ frame[p].op = "Do"
        /\ Writes(p) # <<>> /\ Reads(p) # <<>>

\* The failures the claim C2 counts as failures to send the request.
SendFailures == {"ResolveUDPAddr", "Interfaces", "SetMulticastInterface", "WriteTo",
                 "short write"}

\* C2 (as claimed): Do returns a non-nil error only for a failure to send the
\* request; no failure during receipt is returned to the caller.
C2_ErrorOnlyForSendFailure ==
    \A p \in Procs :
        (DoReturned(p) /\ frame[p].retErr # nil) =>
            /\ frame[p].retErr.op \in SendFailures
            /\ Reads(p) = <<>>

\* An operation of p's call met the deadline: it reported a timeout.
MetDeadline(p) ==
    \E n \in 1..Len(log[p]) :
        /\ IsWrite(log[p][n]) \/ IsRead(log[p][n])
        /\ log[p][n].err.timeout

\* C3 (as claimed): once the deadline set for the call is reached, Do returns a
\* nil error together with whatever was collected so far.
C3_DeadlineIsNeverAnError ==
    \A p \in Procs :
        (DoReturned(p) /\ MetDeadline(p)) =>
            /\ frame[p].retErr = nil
            /\ frame[p].retResponses = frame[p].responses

\* The datagrams a call has read, in the order it read them.
RECURSIVE DatagramsRead(_)
DatagramsRead(l) ==
    IF l = <<>> THEN <<>>
    ELSE IF IsRead(Head(l)) /\ Head(l).err = nil
         THEN <<Head(l).d>> \o DatagramsRead(Tail(l))
         ELSE DatagramsRead(Tail(l))

\* A datagram that is an HTTP response.
WellFormed(d) == d.proto = "HTTP/1.1"

\* C4: when Do returns without error, its result is the datagrams read during
\* the call that are HTTP responses, one response per datagram, in the order
\* read; and after reading any datagram, malformed or not, the call is still
\* collecting.
C4_ResultIsParsedReadsInOrder ==
    \A p \in Procs :
        /\ (DoReturned(p) /\ frame[p].retErr = nil) =>
              LET good == SelectSeq(DatagramsRead(log[p]), WellFormed)
                  got == frame[p].retResponses
              IN /\ Len(got) = Len(good)
                 /\ \A n \in 1..Len(got) :
                       /\ got[n].from = good[n].id
                       /\ got[n].StatusCode = good[n].code
        /\ (InDo(p) /\ log[p] # <<>> /\ IsRead(log[p][Len(log[p])])
               /\ log[p][Len(log[p])].err = nil) => pc[p] = "read"

\* Do returns without error after reading a malformed datagram and then a
\* well-formed one: the result holds the second alone.
C4_Witness ==
    \E p \in Procs :
        /\ DoReturned(p) /\ frame[p].retErr = nil
        /\ Len(DatagramsRead(log[p])) = 2
        /\ ~WellFormed(DatagramsRead(log[p])[1])
        /\ WellFormed(DatagramsRead(log[p])[2])
        /\ Len(frame[p].retResponses) = 1

\* The send phase of p's call has completed: the call is collecting, or has
\* returned from the collection loop.
SendPhaseDone(p) ==
    /\ frame[p].op = "Do"
    /\ pc[p] = "read" \/ (pc[p] = "ret" /\ Reads(p) # <<>>)

\* The positions in ifs of the interfaces that carry the multicast flag.
MulticastCapable(ifl) == {n \in 1..Len(ifl) : ifl[n] \div FlagMulticast % 2 = 1}

WritesOn(p, n) == SelectSeq(Writes(p), LAMBDA e : e.ifc = n)

\* C5: when the send phase completes with numSends = k >= 1 and N
\* multicast-capable interfaces, exactly N*k writes were attempted, k on each
\* multicast-capable interface and none on any other, all with the same payload.
C5_SendsPerInterface ==
    \A p \in Procs :
        (SendPhaseDone(p) /\ frame[p].numSends >= 1) =>
            LET k == frame[p].numSends
                mc == MulticastCapable(frame[p].ifs)
            IN /\ Len(Writes(p)) = Cardinality(mc) * k
               /\ \A n \in 1..Len(frame[p].ifs) :
                     Len(WritesOn(p, n)) = IF n \in mc THEN k ELSE 0
               /\ \A n \in 1..Len(Writes(p)) : Writes(p)[n].ifc \in mc
               /\ \A n \in 1..Len(Writes(p)) : Writes(p)[n].buf = Writes(p)[1].buf

\* Two rounds over two interfaces, one of them multicast-capable: two writes.
C5_Witness ==
    \E p \in Procs :
        /\ SendPhaseDone(p)
        /\ frame[p].numSends = 2
        /\ Len(frame[p].ifs) = 2
        /\ Cardinality(MulticastCapable(frame[p].ifs)) = 1
        /\ Len(Writes(p)) = 2

\* The setup of p's call failed: req.Host did not resolve, or net.Interfaces
\* reported an error.
SetupFailed(p) ==
    \/ ResolveUDPAddr(frame[p].req.Host).err # nil
    \/ frame[p].err.op = "Interfaces"

\* C6: when the host does not resolve or the interfaces cannot be enumerated,
\* Do returns a non-nil error and nil responses, and the call has sent nothing
\* and read nothing.
C6_SetupFailureSendsNothing ==
    \A p \in Procs :
        (InDo(p) /\ SetupFailed(p)) =>
            /\ pc[p] = "ret"
            /\ frame[p].retErr # nil
            /\ frame[p].retResponses = <<>>
            /\ Writes(p) = <<>>
            /\ Reads(p) = <<>>

\* Do has returned the error of net.Interfaces, after setting the deadline.
C6_Witness ==
    \E p \in Procs :
        /\ DoReturned(p)
        /\ frame[p].retErr.op = "Interfaces"
        /\ \E n \in 1..Len(log[p]) : IsSetDeadline(log[p][n])

IsDeadlineSet(e) == IsSetDeadline(e) /\ e.ok

\* C7 (as claimed): in every exchange the deadline is set exactly once.
C7_DeadlineSetOnceInEveryExchange ==
    \A p \in Procs :
        DoReturned(p) => Len(SelectSeq(log[p], IsDeadlineSet)) = 1

\* C7 (amended): an exchange sets the deadline at most once, and SetDeadline is
\* the first thing it does to the socket; an exchange whose host resolves on
\* an open client sets it exactly once; every bind, write and read of the
\* exchange comes after that one setting, which left exactly the timeout
\* until the deadline; the deadline is never set again or extended while the
\* exchange runs, and every read is governed by the deadline this exchange set.
C7_DeadlineSetOnceBeforeSending ==
    \A p \in Procs :
        InDo(p) =>
            /\ Len(SelectSeq(log[p], IsSetDeadline)) <= 1
            /\ (log[p] # <<>>) => IsSetDeadline(log[p][1])
            /\ (pc[p] # "deadline" /\ ResolveUDPAddr(frame[p].req.Host).err = nil) =>
                  /\ log[p] # <<>>
                  /\ log[p][1].ok \/ closed
            /\ (\E n \in 1..Len(log[p]) :
                   IsBind(log[p][n]) \/ IsWrite(log[p][n]) \/ IsRead(log[p][n])) =>
                  /\ IsDeadlineSet(log[p][1])
                  /\ log[p][1].d = frame[p].timeout
                  /\ deadlineOf = frame[p].id
                  /\ deadline <= frame[p].timeout
            /\ \A n \in 1..Len(Reads(p)) : Reads(p)[n].dl = frame[p].id

\* The second call of a behaviour is a Do that set the deadline, sent, read
\* two datagrams and returned at the deadline.
C7_Witness ==
    \E p \in Procs :
        /\ DoReturned(p)
        /\ frame[p].id = 2
        /\ frame[p].retErr = nil
        /\ Writes(p) # <<>>
        /\ Len(DatagramsRead(log[p])) = 2
        /\ Len(SelectSeq(log[p], IsDeadlineSet)) = 1

\* C8: every call of Do returns, under LiveSpec (time advances, a read at or
\* after the deadline reports a timeout, the goroutine is scheduled).
C8_DoReturns ==
    \A p \in Procs : (frame[p].op = "Do" /\ pc[p] # "idle") ~> (pc[p] = "idle")

\* Do returns from the collection loop after a temporary read error, a
\* malformed datagram and a well-formed one.
C8_Witness ==
    \E p \in Procs :
        /\ DoReturned(p)
        /\ \E n \in 1..Len(Reads(p)) :
              Reads(p)[n].err # nil /\ Reads(p)[n].err.temporary /\ ~Reads(p)[n].err.timeout
        /\ \E n \in 1..Len(DatagramsRead(log[p])) : ~WellFormed(DatagramsRead(log[p])[n])
        /\ \E n \in 1..Len(DatagramsRead(log[p])) : WellFormed(DatagramsRead(log[p])[n])
        /\ Reads(p)[Len(Reads(p))].err.timeout

\* The number of header values of header h.
NumValues(h) ==
    Cardinality({kv \in (DOMAIN h) \X (1..4) : kv[2] <= Len(h[kv[1]])})

\* The values of the header lines named k among lines g.. of the nvals lines
\* that follow the first L tokens of buf.
RECURSIVE LineValues(_, _, _, _, _)
LineValues(buf, L, g, nvals, k) ==
    IF g >= nvals THEN <<>>
    ELSE (IF buf[L + 4 * g + 1] = k THEN <<buf[L + 4 * g + 3]>> ELSE <<>>)
            \o LineValues(buf, L, g + 1, nvals, k)

\* buf is the request line of r, then one "Name: value\r\n" line per header
\* value of r, then "\r\n", and nothing more.
ExactFormat(buf, r) ==
    LET m == IF r.Method = "" THEN "GET" ELSE r.Method
        target == RequestURI(r.URL)
        L == Len(target) + 3
        nvals == NumValues(r.Header)
    IN /\ Len(buf) = L + 4 * nvals + 1
       /\ buf[1] = m
       /\ buf[2] = " "
       /\ SubSeq(buf, 3, L - 1) = target
       /\ buf[L] = " HTTP/1.1\r\n"
       /\ \A g \in 0..(nvals - 1) :
             /\ buf[L + 4 * g + 1] \in DOMAIN r.Header
             /\ buf[L + 4 * g + 2] = ": "
             /\ buf[L + 4 * g + 4] = "\r\n"
       /\ \A k \in DOMAIN r.Header : LineValues(buf, L, 0, nvals, k) = r.Header[k]
       /\ buf[Len(buf)] = "\r\n"

\* C9: every message Do writes is exactly the request line with the request's
\* method (GET when it is empty) and target, one line per header value, the
\* empty line, and no body.
C9_EncodedMessageFormat ==
    \A p \in Procs :
        \A n \in 1..Len(Writes(p)) : ExactFormat(Writes(p)[n].buf, frame[p].req)

\* Do has written the message of a request with no method, a body and a
\* header of two values: it starts with GET.
C9_Witness ==
    \E p \in Procs :
        /\ Writes(p) # <<>>
        /\ Writes(p)[1].n = Len(Writes(p)[1].buf)
        /\ frame[p].req.Method = ""
        /\ Writes(p)[1].buf[1] = "GET"
        /\ frame[p].req.Body # <<>>
        /\ \E k \in DOMAIN frame[p].req.Header : Len(frame[p].req.Header[k]) = 2

\* C10: a Do called after Close has returned returns a non-nil error and nil
\* responses, and at no point sends or reads.
C10_DoAfterCloseFails ==
    \A p \in Procs :
        (InDo(p) /\ frame[p].afterClose) =>
            /\ Writes(p) = <<>>
            /\ Reads(p) = <<>>
            /\ frame[p].responses = <<>>
            /\ pc[p] \in {"deadline", "ret"}
            /\ (pc[p] = "ret") => (frame[p].retErr # nil /\ frame[p].retResponses = <<>>)

\* A Do called after Close returned has returned the error of SetDeadline.
C10_Witness ==
    \E p \in Procs :
        /\ DoReturned(p)
        /\ frame[p].afterClose
        /\ frame[p].retErr.op = "SetDeadline"

IsSleep(e) == e.ev = "Sleep"

\* The number of pauses among the first n - 1 events of l.
SleepsBefore(l, n) == Len(SelectSeq(SubSeq(l, 1, n - 1), IsSleep))

\* C11: the send phase is sequential and precedes collection.  Every bind and
\* write of round r comes after exactly r pauses (so the sends of a round come
\* before those of the next, and a pause lies between two rounds); within a
\* round the interfaces are taken in their order, once each; every write goes
\* out of a multicast-capable interface that the event just before it bound
\* as the outgoing interface; nothing but reads follows a read, and a read is
\* made only when all numSends rounds and their pauses are done.
C11_SendPhaseSequential ==
    \A p \in Procs :
        InDo(p) =>
            LET l == log[p]
            IN /\ \A n \in 1..Len(l) :
                     /\ (IsBind(l[n]) \/ IsWrite(l[n]) \/ IsSleep(l[n])) =>
                           l[n].round = SleepsBefore(l, n)
                     /\ IsWrite(l[n]) =>
                           /\ n > 1
                           /\ IsBind(l[n - 1]) /\ l[n - 1].ok
                           /\ l[n - 1].ifc = l[n].ifc
                           /\ l[n - 1].round = l[n].round
                           /\ l[n].ifc \in MulticastCapable(frame[p].ifs)
                     /\ IsRead(l[n]) =>
                           /\ \A m \in (n + 1)..Len(l) : IsRead(l[m])
                           /\ SleepsBefore(l, n) =
                                 (IF frame[p].numSends > 0 THEN frame[p].numSends ELSE 0)
               /\ \A m, n \in 1..Len(Writes(p)) :
                     (m < n) =>
                        \/ Writes(p)[m].round < Writes(p)[n].round
                        \/ /\ Writes(p)[m].round = Writes(p)[n].round
                           /\ Writes(p)[m].ifc < Writes(p)[n].ifc

\* A Do has sent two rounds on two multicast-capable interfaces, paused after
\* each round, and then read a datagram.
C11_Witness ==
    \E p \in Procs :
        /\ InDo(p)
        /\ frame[p].numSends = 2
        /\ Cardinality(MulticastCapable(frame[p].ifs)) = 2
        /\ Len(Writes(p)) = 4
        /\ Len(SelectSeq(log[p], IsSleep)) = 2
        /\ DatagramsRead(log[p]) # <<>>

\* The write of event e failed: WriteTo reported an error, or wrote fewer
\* bytes than the message holds.
WriteFailed(e) == IsWrite(e) /\ (e.err # nil \/ e.n < Len(e.buf))

\* C12: a write that fails or is short aborts the exchange at once.  It is the
\* last thing the call does to the socket (no further bind, send or read),
\* the call has executed a return statement, and it returns a non-nil error
\* and nil responses.
C12_WriteFailureAborts ==
    \A p \in Procs :
        InDo(p) =>
            \A n \in 1..Len(log[p]) :
                WriteFailed(log[p][n]) =>
                    /\ n = Len(log[p])
                    /\ pc[p] = "ret"
                    /\ frame[p].retErr # nil
                    /\ frame[p].retResponses = <<>>

\* In its second round, after two full writes, a Do wrote some but not all
\* bytes of the message and returned an error.
C12_Witness ==
    \E p \in Procs :
        /\ DoReturned(p)
        /\ Len(Writes(p)) = 3
        /\ Writes(p)[3].round = 1
        /\ Writes(p)[3].err = nil
        /\ Writes(p)[3].n > 0 /\ Writes(p)[3].n < Len(Writes(p)[3].buf)
        /\ frame[p].retErr.op = "short write"

\* e is a temporary error that is no timeout.
IsTemporary(e) == e # nil /\ e.netError /\ e.temporary /\ ~e.timeout

\* This step is a ReadFrom of p's call that reported a temporary error.
TemporaryReadStep(p) ==
    /\ InDo(p)
    /\ Len(log'[p]) = Len(log[p]) + 1
    /\ IsRead(log'[p][Len(log'[p])])
    /\ IsTemporary(log'[p][Len(log'[p])].err)

\* The responses the datagrams in seq ds parse to are, one for one, resps.
ParsedFrom(resps, ds) ==
    LET good == SelectSeq(ds, WellFormed)
    IN /\ Len(resps) = Len(good)
       /\ \A n \in 1..Len(resps) : resps[n].from = good[n].id

\* C13: a temporary read error (not a timeout) is absorbed.  The step that
\* meets it pauses for the read pause and leaves the call at the read, with
\* its responses and everything else of its frame unchanged and no datagram
\* consumed; Do never returns such an error; and while the call collects, its
\* responses are the well-formed datagrams read so far, those read after
\* temporary errors included.
C13_TemporaryReadErrorAbsorbed ==
    /\ [](\A p \in Procs :
            InDo(p) =>
               /\ (pc[p] = "ret") => ~IsTemporary(frame[p].retErr)
               /\ (pc[p] = "read") =>
                     ParsedFrom(frame[p].responses, DatagramsRead(log[p])))
    /\ [][\A p \in Procs :
            TemporaryReadStep(p) =>
               /\ pc'[p] = "read"
               /\ frame'[p] = frame[p]
               /\ deadline' = Elapse(ReadPause)
               /\ inbox' = inbox]_vars

\* Do returns without error two responses, the second read after a temporary
\* error that followed the first.
C13_Witness ==
    \E p \in Procs :
        /\ DoReturned(p) /\ frame[p].retErr = nil
        /\ Len(Reads(p)) = 4
        /\ Reads(p)[1].err = nil /\ WellFormed(Reads(p)[1].d)
        /\ IsTemporary(Reads(p)[2].err)
        /\ Reads(p)[3].err = nil /\ WellFormed(Reads(p)[3].d)
        /\ Len(frame[p].retResponses) = 2
        /\ frame[p].retResponses[2].from = Reads(p)[3].d.id

\* e is a read error that is neither a timeout nor temporary.
IsFatalRead(e) == e # nil /\ ~(e.netError /\ (e.timeout \/ e.temporary))

InClose(p) == frame[p].op = "Close" /\ pc[p] \notin {"idle", "lock"}

\* C15: Close and Do exclude each other through connLock.  While a Do is in
\* flight no Close is past its Lock, and a Close that waits has done nothing
\* to the socket; while a Close is running every Do called is still before
\* its Lock and has done nothing to the socket; and the step that closes the
\* socket is taken by a Close that holds the lock, while no Do is in flight.
C15_CloseExcludesDo ==
    /\ [](\A p, q \in Procs :
            /\ (InDo(p) /\ frame[q].op = "Close" /\ pc[q] # "idle") =>
                  (pc[q] = "lock" /\ log[q] = <<>>)
            /\ (InClose(q) /\ frame[p].op = "Do" /\ pc[p] # "idle") =>
                  (pc[p] = "lock" /\ log[p] = <<>>)
            /\ InClose(q) => connLock = q)
    /\ [][(closed' # closed \/ \E q \in Procs : Len(log'[q]) > Len(log[q])
                                                  /\ log'[q][Len(log'[q])].ev = "Close") =>
            /\ \A p \in Procs : ~InDo(p)
            /\ \E q \in Procs : InClose(q) /\ connLock = q]_vars

\* A Close waits for the lock while a Do that has sent and read a datagram is
\* still collecting: the socket is not closed.
C15_Witness ==
    \E p, q \in Procs :
        /\ frame[q].op = "Close" /\ pc[q] = "lock"
        /\ frame[p].op = "Do" /\ pc[p] = "read"
        /\ Writes(p) # <<>> /\ DatagramsRead(log[p]) # <<>>
        /\ ~closed

\* C16: the lock is released on every return path.  The lock is held only by
\* a goroutine that is inside Do or Close, never by one that has returned or
\* still waits; the step by which a call returns to its caller, whatever it
\* returns, leaves the lock free; and, under LiveSpec, every caller that
\* waits for the lock comes to hold it.
C16_LockReleasedOnEveryReturn ==
    /\ [](/\ (connLock # 0) => (InDo(connLock) \/ InClose(connLock))
          /\ \A p \in Procs : (pc[p] \in {"idle", "lock"}) => (connLock # p))
    /\ [][\A p \in Procs : (pc[p] = "ret" /\ pc'[p] = "idle") => (connLock' = 0)]_vars
    /\ \A p \in Procs : (pc[p] = "lock") ~> (connLock = p)

\* A Do that was called before a Close returned, and so waited while that
\* Close held the lock, holds the lock after it: the socket is closed and the
\* Do is about to return the error of SetDeadline.
C16_Witness ==
    \E p \in Procs :
        /\ DoReturned(p)
        /\ connLock = p
        /\ ~frame[p].afterClose
        /\ closed
        /\ frame[p].retErr.op = "SetDeadline"

\* The binding of event e failed.
BindFailed(e) == IsBind(e) /\ ~e.ok

\* C17: a SetMulticastInterface that fails on a multicast-capable interface
\* ends the exchange.  It is the last thing the call does to the socket (no
\* write on that interface, on a later one or in a later round, and no read);
\* Do returns its error and nil responses; the writes made before it were all
\* made in full, one for each interface of the rounds before and for each
\* earlier interface of this round, which is between 0 and N*k-1 datagrams.
C17_BindFailureAborts ==
    \A p \in Procs :
        InDo(p) =>
            \A n \in 1..Len(log[p]) :
                BindFailed(log[p][n]) =>
                    LET mc == MulticastCapable(frame[p].ifs)
                        e == log[p][n]
                    IN /\ n = Len(log[p])
                       /\ pc[p] = "ret"
                       /\ frame[p].retErr = Failure("SetMulticastInterface")
                       /\ frame[p].retResponses = <<>>
                       /\ Reads(p) = <<>>
                       /\ e.ifc \in mc
                       /\ \A m \in 1..Len(Writes(p)) :
                             /\ Writes(p)[m].err = nil
                             /\ Writes(p)[m].n = Len(Writes(p)[m].buf)
                       /\ Len(Writes(p)) =
                             e.round * Cardinality(mc)
                                + Cardinality({m \in mc : m < e.ifc})
                       /\ Len(Writes(p)) <= Cardinality(mc) * frame[p].numSends - 1

\* With two multicast-capable interfaces and two rounds, the bind for the
\* last write failed: three datagrams were sent and Do returns the error.
C17_Witness ==
    \E p \in Procs :
        /\ DoReturned(p)
        /\ frame[p].numSends = 2
        /\ Cardinality(MulticastCapable(frame[p].ifs)) = 2
        /\ BindFailed(log[p][Len(log[p])])
        /\ Len(Writes(p)) = 3
        /\ frame[p].retErr = Failure("SetMulticastInterface")

\* C18 (as claimed): a Do called with numSends zero or negative that gets to
\* its loops sends no datagram and makes no send pause, has set the deadline,
\* collects until a read meets the deadline, and returns a nil error with the
\* well-formed datagrams it read.
C18_NoSendsStillCollects ==
    \A p \in Procs :
        (SendPhaseDone(p) /\ frame[p].numSends <= 0) =>
            /\ Writes(p) = <<>>
            /\ SelectSeq(log[p], IsBind) = <<>>
            /\ SelectSeq(log[p], IsSleep) = <<>>
            /\ IsDeadlineSet(log[p][1])
            /\ (pc[p] = "ret") =>
                  /\ Reads(p)[Len(Reads(p))].err # nil
                  /\ Reads(p)[Len(Reads(p))].err.timeout
                  /\ frame[p].retErr = nil
                  /\ ParsedFrom(frame[p].retResponses, DatagramsRead(log[p]))

\* The datagrams (their numbers) in seq ds.
Ids(ds) == {ds[n].id : n \in 1..Len(ds)}

\* The datagrams the responses in seq resps were parsed from.
Froms(resps) == {resps[n].from : n \in 1..Len(resps)}

\* C19: responses belong to the exchange that read them.  A goroutine reads
\* only between its Lock and its return, holding the lock; a datagram read by
\* an exchange has left the socket, is read once, and is in the result of no
\* other exchange; the responses an exchange holds or returns come from
\* datagrams it read itself; when a Do returns, its result is what is newly
\* attributed to it, and a datagram once in the result of an exchange is
\* never in the result of another.
C19_ResponsesAttributedByReadTime ==
    /\ [](/\ \A p \in Procs :
                /\ (pc[p] \in {"idle", "lock"}) => (Reads(p) = <<>>)
                /\ InDo(p) =>
                      LET ds == DatagramsRead(log[p])
                      IN /\ Froms(frame[p].responses) \subseteq Ids(ds)
                         /\ Froms(frame[p].retResponses) \subseteq Ids(ds)
                         /\ Cardinality(Ids(ds)) = Len(ds)
                         /\ \A d \in Ids(ds) :
                               /\ d <= arrived
                               /\ d \notin Ids(inbox)
                               /\ delivered[d] = 0
                               /\ \A q \in Procs \ {p} : d \notin Ids(DatagramsRead(log[q]))
          /\ \A d \in 1..MaxDatagrams :
                (delivered[d] # 0) => (d <= arrived /\ d \notin Ids(inbox)))
    /\ [][\A p \in Procs :
            (Len(Reads(p)') > Len(Reads(p))) => (InDo(p) /\ connLock = p)]_vars
    /\ [][\A p \in Procs :
            (DoReturned(p) /\ pc'[p] = "idle") =>
                \A d \in 1..MaxDatagrams :
                    (delivered'[d] = frame[p].id) <=> (d \in Froms(frame[p].retResponses))]_vars
    /\ [][\A d \in 1..MaxDatagrams :
            (delivered[d] # 0) => (delivered'[d] = delivered[d])]_vars

\* Two exchanges have returned: the first datagram is in the result of the
\* first call, the second datagram in the result of the second.
C19_Witness ==
    /\ delivered[1] = 1
    /\ delivered[2] = 2
    /\ \A p \in Procs : pc[p] = "idle"

=============================================================================
